---- MODULE Spec2Model ----
(***************************************************************************)
(* Model of wleave's adaptive grid layout manager (src/src/layout.rs):     *)
(* the LayoutWleaveMenu properties, the stored MenuLayout configuration,   *)
(* the child list of the host widget, MenuLayout::allocate (the            *)
(* brute-force packer followed by the per-child placement) and the         *)
(* layout manager's measure.                                               *)
(*                                                                         *)
(* Numbers.  f64 values are modelled exactly, as rationals <<num, den>>,   *)
(* scaled by a power of H = 2^64 (the usize modulus): [deg, v] stands for  *)
(* v * H^deg.  A usize subtraction that wraps yields H - k for a small k,  *)
(* and `as f64` rounds that to H; a sum of magnitudes of different degree  *)
(* is the larger one (the smaller is below half an ulp for every value the *)
(* model draws, all below 2^8 when a wrap can happen).  [deg |-> -1] is    *)
(* NaN.                                                                    *)
(***************************************************************************)
EXTENDS Integers, Sequences, FiniteSets, TLC

\* ------------------------------------------------------------ rationals

Abs(x) == IF x < 0 THEN -x ELSE x

RECURSIVE GCD(_, _)
GCD(a, b) == IF b = 0 THEN a ELSE GCD(b, a % b)

\* <<n, d>> in lowest terms with d > 0
Rat(n, d) ==
    LET g == GCD(Abs(n), Abs(d))
        s == IF d < 0 THEN -1 ELSE 1
    IN  <<(s * n) \div g, (s * d) \div g>>

RInt(n) == <<n, 1>>
RAdd(a, b) == Rat(a[1] * b[2] + b[1] * a[2], a[2] * b[2])
RNeg(a) == <<-a[1], a[2]>>
RSub(a, b) == RAdd(a, RNeg(b))
RMul(a, b) == Rat(a[1] * b[1], a[2] * b[2])
RDiv(a, b) == Rat(a[1] * b[2], a[2] * b[1])
RLt(a, b) == a[1] * b[2] < b[1] * a[2]
RSign(a) == IF a[1] > 0 THEN 1 ELSE IF a[1] < 0 THEN -1 ELSE 0

\* truncation toward zero, as Rust's float-to-int `as` does in range
RTrunc(a) == IF a[1] >= 0 THEN a[1] \div a[2] ELSE -((-a[1]) \div a[2])

\* ------------------------------------------------------------ f64

NaN == [deg |-> -1, v |-> RInt(0)]
IsNaN(x) == x.deg = -1

F(deg, r) == IF r[1] = 0 THEN [deg |-> 0, v |-> RInt(0)] ELSE [deg |-> deg, v |-> r]
FRat(r) == F(0, r)
FInt(n) == F(0, RInt(n))
FZero == FInt(0)

FNeg(x) == IF IsNaN(x) THEN NaN ELSE F(x.deg, RNeg(x.v))

FAdd(x, y) ==
    IF IsNaN(x) \/ IsNaN(y) THEN NaN
    ELSE IF x.v[1] = 0 THEN y
    ELSE IF y.v[1] = 0 THEN x
    ELSE IF x.deg > y.deg THEN x
    ELSE IF y.deg > x.deg THEN y
    ELSE F(x.deg, RAdd(x.v, y.v))

FSub(x, y) == FAdd(x, FNeg(y))

FMul(x, y) ==
    IF IsNaN(x) \/ IsNaN(y) THEN NaN
    ELSE F(x.deg + y.deg, RMul(x.v, y.v))

\* an infinity of sign s: a magnitude above every finite one the model reaches
FInf(s) == [deg |-> 9, v |-> RInt(s)]

\* x / y; 0/0 is NaN and a nonzero x over (positive) zero is an infinity.  In
\* allocate the only float divisor that can be zero is the aspect ratio, and
\* the dividend is then a product with it; in measure it divides an extent.
FDiv(x, y) ==
    IF IsNaN(x) \/ IsNaN(y) THEN NaN
    ELSE IF y.v[1] = 0 THEN (IF x.v[1] = 0 THEN NaN ELSE FInf(RSign(x.v)))
    ELSE F(x.deg - y.deg, RDiv(x.v, y.v))

\* x < y; false when either is NaN
FLt(x, y) ==
    IF IsNaN(x) \/ IsNaN(y) THEN FALSE
    ELSE LET sx == RSign(x.v)
             sy == RSign(y.v)
         IN  IF sx # sy THEN sx < sy
             ELSE IF sx = 0 THEN FALSE
             ELSE IF x.deg # y.deg
                  THEN (IF sx > 0 THEN x.deg < y.deg ELSE x.deg > y.deg)
             ELSE RLt(x.v, y.v)

FGt(x, y) == FLt(y, x)
FLe(x, y) == ~IsNaN(x) /\ ~IsNaN(y) /\ ~FLt(y, x)

\* f64::min: the other operand when one is NaN
FMin(x, y) ==
    IF IsNaN(x) THEN y
    ELSE IF IsNaN(y) THEN x
    ELSE IF FLt(y, x) THEN y ELSE x

\* f64::round: to the nearest integer, halves away from zero
FRound(x) ==
    IF IsNaN(x) \/ x.deg > 0 THEN x
    ELSE LET m == (2 * Abs(x.v[1]) + x.v[2]) \div (2 * x.v[2])
         IN  FInt(RSign(x.v) * m)

I32Max == 2147483647
I32Min == -I32Max - 1

\* `x as i32`: truncates toward zero, saturates, NaN gives 0
AsI32(x) ==
    IF IsNaN(x) THEN 0
    ELSE IF x.deg > 0 THEN (IF RSign(x.v) > 0 THEN I32Max ELSE I32Min)
    ELSE RTrunc(x.v)

\* ------------------------------------------------------------ usize

\* a usize value: k, or H - k once a cast or a subtraction has wrapped
USize(k) == [wrapped |-> FALSE, k |-> k]

\* `x as usize` for an i32 x: a negative x becomes H - |x|
I32AsUsize(x) == IF x >= 0 THEN USize(x) ELSE [wrapped |-> TRUE, k |-> -x]

\* a - b underflows
USubOverflows(a, b) == ~a.wrapped /\ a.k < b

\* a - b (mod H), b an unwrapped count
USub(a, b) ==
    IF a.wrapped THEN [wrapped |-> TRUE, k |-> a.k + b]
    ELSE IF a.k >= b THEN USize(a.k - b)
    ELSE [wrapped |-> TRUE, k |-> b - a.k]

\* `u as f64`: H - k rounds to H
UsizeAsF64(u) == IF u.wrapped THEN F(1, RInt(1)) ELSE FInt(u.k)

\* ------------------------------------------------------------ state

VARIABLES
    aspect_ratio,       \* property "aspect-ratio" (a rational)
    aspect_ratio_set,   \* property "aspect-ratio-set"
    column_spacing,     \* property "column-spacing" (a rational)
    row_spacing,        \* property "row-spacing" (a rational)
    layout_strategy,    \* the stored MenuLayout: spacings and Option aspect ratio
    children,           \* the host widget's child list, in traversal order
    overflow_checks,    \* the build: TRUE panics on integer overflow, FALSE wraps
    call,               \* the most recent allocate call: its arguments, the
                        \* geometry it packed and its size_allocate calls
    widget,             \* the host widget's current width() and height()
    measured            \* what measure returned, when the operation that
                        \* led to this state was a measure call

engine == <<aspect_ratio, aspect_ratio_set, column_spacing, row_spacing,
            layout_strategy>>

vars == <<aspect_ratio, aspect_ratio_set, column_spacing, row_spacing,
          layout_strategy, children, overflow_checks, call, widget, measured>>

None == [some |-> FALSE, value |-> RInt(0)]
Some(a) == [some |-> TRUE, value |-> a]

\* no size_allocate call reached the child
NoAlloc == [set |-> FALSE, x |-> 0, y |-> 0, width |-> 0, height |-> 0, baseline |-> -1]
Allocation(x, y, w, h, baseline) ==
    [set |-> TRUE, x |-> x, y |-> y, width |-> w, height |-> h, baseline |-> baseline]

\* what a child's measure returns: (minimum, natural, minimum baseline,
\* natural baseline), a baseline of -1 when the child has none
Measurement(min, nat, min_baseline, nat_baseline) ==
    [min |-> min, nat |-> nat, min_baseline |-> min_baseline,
     nat_baseline |-> nat_baseline]

\* a child widget: should_layout() and what its measure returns per orientation
Widget(visible, horizontal, vertical) ==
    [should_layout |-> visible, Horizontal |-> horizontal, Vertical |-> vertical]

\* a button of the menu
Child(visible) ==
    Widget(visible, Measurement(2, 5, -1, -1), Measurement(3, 4, 1, 2))

\* #[derive(Default)] struct MenuLayout
DefaultMenuLayout ==
    [column_spacing |-> RInt(0), row_spacing |-> RInt(0), aspect_ratio |-> None]

NoGeometry == [rows |-> 1, cols |-> 1, b_width |-> FZero, b_height |-> FZero]

NoCall ==
    [outcome |-> "none", width |-> 0, height |-> 0, baseline |-> -1, n |-> 0,
     packed |-> FALSE, geometry |-> NoGeometry, base_x |-> FZero, base_y |-> FZero,
     shown |-> <<>>, rects |-> <<>>]

NoMeasure ==
    [done |-> FALSE, orientation |-> "Horizontal", for_size |-> -1,
     result |-> Measurement(0, 0, -1, -1)]

\* ------------------------------------------------------------ the packer

\* (self.column_spacing as i32).max(0) as usize
ClampSpacing(s) ==
    LET t == AsI32(FRat(s)) IN IF t > 0 THEN t ELSE 0

\* the candidate filter of the search loop: the pair is scored unless
\* i*j > n + i, i*j > n + j or i*j < n
Scored(n, i_rows, j_cols) ==
    ~(i_rows * j_cols > n + i_rows
      \/ i_rows * j_cols > n + j_cols
      \/ i_rows * j_cols < n)

\* (width as usize - (col_gaps * col_spacing)) as f64 / j_cols as f64
WidthQuotient(width, c_spacing, j_cols) ==
    FDiv(UsizeAsF64(USub(I32AsUsize(width), (j_cols - 1) * c_spacing)), FInt(j_cols))

\* (height as usize - (row_gaps * row_spacing)) as f64 / i_rows as f64
HeightQuotient(height, r_spacing, i_rows) ==
    FDiv(UsizeAsF64(USub(I32AsUsize(height), (i_rows - 1) * r_spacing)), FInt(i_rows))

\* one of the usize subtractions of a scored candidate underflows
CandidateOverflows(width, height, c_spacing, r_spacing, i_rows, j_cols) ==
    \/ USubOverflows(I32AsUsize(width), (j_cols - 1) * c_spacing)
    \/ USubOverflows(I32AsUsize(height), (i_rows - 1) * r_spacing)

\* arm Some(aspect @ 1.0..)
CellWide(wq, hq, aspect) ==
    LET w0 == FMul(wq, aspect)
        h == FMin(hq, FDiv(w0, aspect))
    IN  [w |-> FMul(h, aspect), h |-> h]

\* CellTall without the final h = w / aspect
CellTall_KeepsHeight(wq, hq, aspect) ==
    [w |-> FMin(FMul(wq, aspect), FMul(hq, aspect)), h |-> hq]

\* arm Some(aspect @ ..1.0)
CellTall(wq, hq, aspect) ==
    LET h0 == hq
        w == FMin(FMul(wq, aspect), FMul(h0, aspect))
    IN  [w |-> w, h |-> FDiv(w, aspect)]

\* CellFree cutting the cell down to a square
CellFree_Square(wq, hq) == [w |-> FMin(wq, hq), h |-> FMin(wq, hq)]

\* arm Some(..) | None
CellFree(wq, hq) == [w |-> wq, h |-> hq]

\* the (w, h) of one scored candidate
Cell(in, i_rows, j_cols) ==
    LET wq == WidthQuotient(in.width, in.col_spacing, j_cols)
        hq == HeightQuotient(in.height, in.row_spacing, i_rows)
        a == in.aspect_ratio
    IN  IF a.some /\ ~RLt(a.value, RInt(1)) THEN CellWide(wq, hq, FRat(a.value))
        ELSE IF a.some /\ RLt(a.value, RInt(1)) THEN CellTall(wq, hq, FRat(a.value))
        ELSE CellFree(wq, hq)

Area(c) == FMul(c.w, c.h)
GeometryArea(g) == FMul(g.b_width, g.b_height)

\* Better comparing the widths in place of the areas
Better_ByWidth(c, best) == FGt(c.w, best.b_width)

\* Better with >= in place of >: the last of several equal candidates wins
Better_OrEqual(c, best) == ~FLt(Area(c), GeometryArea(best))

\* if w * h > b_width * b_height
Better(c, best) == FGt(Area(c), GeometryArea(best))

\* the two nested loops, candidate k = (i_rows - 1) * n + (j_cols - 1)
RECURSIVE PackFrom(_, _, _)
PackFrom(in, k, best) ==
    IF k >= in.n * in.n THEN best
    ELSE LET i_rows == (k \div in.n) + 1
             j_cols == (k % in.n) + 1
         IN  IF ~Scored(in.n, i_rows, j_cols) THEN PackFrom(in, k + 1, best)
             ELSE LET c == Cell(in, i_rows, j_cols)
                  IN  PackFrom(in, k + 1,
                               IF Better(c, best)
                               THEN [rows |-> i_rows, cols |-> j_cols,
                                     b_width |-> c.w, b_height |-> c.h]
                               ELSE best)

\* rows = 1, cols = 1, b_width = 0.0, b_height = 0.0, then the search
Pack(in) == PackFrom(in, 0, NoGeometry)

\* the search panics: overflow checks are on and a scored candidate underflows
PackPanics(in, checks) ==
    /\ checks
    /\ \E i_rows \in 1..in.n, j_cols \in 1..in.n :
          /\ Scored(in.n, i_rows, j_cols)
          /\ CandidateOverflows(in.width, in.height, in.col_spacing, in.row_spacing,
                                i_rows, j_cols)

\* the packer's inputs for a call, from the stored layout
PackInput(lay, n, width, height) ==
    [n |-> n, width |-> width, height |-> height,
     col_spacing |-> ClampSpacing(lay.column_spacing),
     row_spacing |-> ClampSpacing(lay.row_spacing),
     aspect_ratio |-> lay.aspect_ratio]

\* ------------------------------------------------------------ placement

BaseX(in, g) ==
    FDiv(FSub(FSub(FInt(in.width),
                   FMul(FInt(g.cols - 1), FAdd(FInt(in.col_spacing), g.b_width))),
              g.b_width),
         FInt(2))

BaseY(in, g) ==
    FDiv(FSub(FSub(FInt(in.height),
                   FMul(FInt(g.rows - 1), FAdd(FInt(in.row_spacing), g.b_height))),
              g.b_height),
         FInt(2))

\* self.aspect_ratio.unwrap_or(1.0)
AspectOrOne(lay) == IF lay.aspect_ratio.some THEN FRat(lay.aspect_ratio.value) ELSE FInt(1)

\* x of the child at index i (0-based)
ItemX(lay, g, base_x, i) ==
    LET x_grid == FInt(i % g.cols)
    IN  FAdd(FAdd(base_x, FMul(x_grid, g.b_width)),
             FMul(FMul(x_grid, FRat(lay.column_spacing)), AspectOrOne(lay)))

\* y of the child at index i (0-based)
ItemY(lay, g, base_y, i) ==
    LET y_grid == FInt(i \div g.cols)
    IN  FAdd(FAdd(base_y, FMul(y_grid, g.b_height)),
             FMul(y_grid, FRat(lay.row_spacing)))

\* ItemRect passing on the baseline of the call before in place of its own
ItemRect_StaleBaseline(lay, in, g, i, baseline) ==
    Allocation(AsI32(ItemX(lay, g, BaseX(in, g), i)),
               AsI32(ItemY(lay, g, BaseY(in, g), i)),
               AsI32(g.b_width), AsI32(g.b_height), call.baseline)

\* the rectangle size_allocate gets for the child at index i
ItemRect(lay, in, g, i, baseline) ==
    Allocation(AsI32(ItemX(lay, g, BaseX(in, g), i)),
               AsI32(ItemY(lay, g, BaseY(in, g), i)),
               AsI32(g.b_width), AsI32(g.b_height), baseline)

\* Written without the should_layout() test
Written_All(lay, in, g, kids, baseline) ==
    [k \in 1..Len(kids) |-> ItemRect(lay, in, g, k - 1, baseline)]

\* the placement loop: the rectangle each child's size_allocate is called
\* with, NoAlloc for a child it skips (should_layout() false)
Written(lay, in, g, kids, baseline) ==
    [k \in 1..Len(kids) |->
        IF kids[k].should_layout THEN ItemRect(lay, in, g, k - 1, baseline) ELSE NoAlloc]

Shown(kids) == [k \in 1..Len(kids) |-> kids[k].should_layout]

\* ------------------------------------------------------------ measure

\* i32::max and i32::min
MaxOf(a, b) == IF a >= b THEN a ELSE b
MinOf(a, b) == IF a <= b THEN a ELSE b

\* MeasureChild without the should_layout() test
MeasureChild_CountsHidden(acc, child, orientation) ==
    LET c == child[orientation]
    IN  Measurement(MaxOf(c.min, acc.min), MaxOf(c.nat, acc.nat),
                    IF c.min_baseline # -1
                    THEN MaxOf(acc.min_baseline, c.min_baseline)
                    ELSE acc.min_baseline,
                    IF c.nat_baseline # -1
                    THEN MaxOf(acc.nat_baseline, c.nat_baseline)
                    ELSE acc.nat_baseline)

\* one pass of the child loop: a child that is not laid out is skipped, any
\* other raises the four running values
MeasureChild(acc, child, orientation) ==
    IF ~child.should_layout THEN acc
    ELSE LET c == child[orientation]
         IN  Measurement(MaxOf(c.min, acc.min), MaxOf(c.nat, acc.nat),
                         IF c.min_baseline # -1
                         THEN MaxOf(acc.min_baseline, c.min_baseline)
                         ELSE acc.min_baseline,
                         IF c.nat_baseline # -1
                         THEN MaxOf(acc.nat_baseline, c.nat_baseline)
                         ELSE acc.nat_baseline)

\* the child loop from the child at index k on, (0, 0, -1, -1) before the first
RECURSIVE MeasureChildren(_, _, _, _)
MeasureChildren(kids, orientation, k, acc) ==
    IF k > Len(kids) THEN acc
    ELSE MeasureChildren(kids, orientation, k + 1,
                         MeasureChild(acc, kids[k], orientation))

\* expected_width / expected_height of the four arms of the match
Expected(orientation, for_size, aspect, w) ==
    IF for_size = -1 /\ orientation = "Horizontal"
    THEN FMul(FInt(w.height), FRat(aspect))
    ELSE IF for_size = -1 THEN FDiv(FInt(w.width), FRat(aspect))
    ELSE IF orientation = "Horizontal" THEN FMul(FInt(for_size), FRat(aspect))
    ELSE FDiv(FInt(for_size), FRat(aspect))

\* Natural without the cap by the children's natural size
Natural_Uncapped(min, nat, expected) ==
    MaxOf(AsI32(FRound(expected)), min)

\* nat.min(expected.round() as i32).max(min)
Natural(min, nat, expected) ==
    MaxOf(MinOf(nat, AsI32(FRound(expected))), min)

\* LayoutManagerImpl::measure: the tuple it returns
MeasureResult(kids, orientation, for_size, aspect, w) ==
    LET env == MeasureChildren(kids, orientation, 1, Measurement(0, 0, -1, -1))
    IN  [env EXCEPT !.nat = Natural(env.min, env.nat,
                                    Expected(orientation, for_size, aspect, w))]

\* ------------------------------------------------------------ bounds and inputs

\* most children the host widget holds in the property-and-child protocol
MaxChildren == 2
\* most children of a widget the packer is applied to
MaxItems == 6

\* aspect ratios a caller passes: 1/2, 1, 3/2, 2
AspectValues == {<<1, 2>>, <<1, 1>>, <<3, 2>>, <<2, 1>>}
\* (column, row) spacings a caller passes, among -3, 0, 3 and 7/2
SpacingPairs ==
    {<<<<0, 1>>, <<0, 1>>>>, <<<<3, 1>>, <<0, 1>>>>, <<<<0, 1>>, <<3, 1>>>>,
     <<<<-3, 1>>, <<-3, 1>>>>, <<<<7, 2>>, <<3, 1>>>>}
\* (width, height, baseline) of the allocate calls: degenerate and small boxes,
\* and the boxes of the documented scenarios
SmallCalls == {<<-1, 2, -1>>, <<0, 0, -1>>, <<2, 2, -1>>, <<12, 2, 5>>,
               <<2, 12, -1>>, <<12, 12, -1>>}
ScenarioCalls == {<<400, 400, -1>>, <<500, 500, -1>>, <<600, 300, -1>>,
                  <<1200, 300, -1>>}
Calls == SmallCalls \cup ScenarioCalls

\* child lists: every list of visible children, and every short list with
\* hidden children in it
RECURSIVE AllVisible(_)
AllVisible(n) == IF n = 0 THEN <<>> ELSE Append(AllVisible(n - 1), Child(TRUE))
ShortLists ==
    UNION {[1..n -> {Child(TRUE), Child(FALSE)}] : n \in 0..MaxChildren}
ChildLists == {AllVisible(n) : n \in 0..MaxItems} \cup ShortLists

\* stored aspect-ratio values measure is applied to: 0, 1/2, 1, 2
MeasureAspects == {<<0, 1>>, <<1, 2>>, <<1, 1>>, <<2, 1>>}
\* extents of the widget: not yet allocated, wide, tall
Extents == {[width |-> 0, height |-> 0], [width |-> 12, height |-> 2],
            [width |-> 3, height |-> 7]}
\* for_size arguments: none, zero and a small size
ForSizes == {-1, 0, 3}
\* children of different measurements, with and without baselines
Widgets ==
    {Widget(v, m[1], m[2]) :
        v \in BOOLEAN,
        m \in {<<Measurement(2, 5, -1, -1), Measurement(3, 4, 1, 2)>>,
               <<Measurement(4, 9, 3, -1), Measurement(1, 20, -1, 6)>>,
               <<Measurement(6, 6, -1, 4), Measurement(8, 8, 5, -1)>>}}
MeasuredLists == UNION {[1..n -> Widgets] : n \in 0..MaxChildren}

\* ------------------------------------------------------------ operations

\* LayoutWleaveMenu::new(ratio, column_spacing, row_spacing)
New(ratio, c_spacing, r_spacing) ==
    /\ aspect_ratio_set = ratio.some
    /\ aspect_ratio = (IF ratio.some THEN ratio.value ELSE RInt(1))
    /\ column_spacing = c_spacing
    /\ row_spacing = r_spacing
    /\ layout_strategy = DefaultMenuLayout

Running == call.outcome # "panic"

\* RefreshedLayout taking the aspect-ratio value whatever aspect-ratio-set is
RefreshedLayout_AlwaysRatio ==
    [column_spacing |-> column_spacing,
     row_spacing |-> row_spacing,
     aspect_ratio |-> Some(aspect_ratio)]

\* the stored layout after lines 49..51 of LayoutManagerImpl::allocate
RefreshedLayout ==
    [column_spacing |-> column_spacing,
     row_spacing |-> row_spacing,
     aspect_ratio |-> IF aspect_ratio_set THEN Some(aspect_ratio) ELSE None]

\* MenuLayout::allocate on the child list kids: what the call did
MenuLayoutAllocate(lay, kids, width, height, baseline, checks) ==
    LET n == Len(kids)
        in == PackInput(lay, n, width, height)
        base == [NoCall EXCEPT !.width = width, !.height = height,
                               !.baseline = baseline, !.n = n, !.shown = Shown(kids)]
    IN  IF n = 0
        THEN [base EXCEPT !.outcome = "ok", !.rects = [k \in 1..n |-> NoAlloc]]
        ELSE IF PackPanics(in, checks)
        THEN [base EXCEPT !.outcome = "panic", !.rects = [k \in 1..n |-> NoAlloc]]
        ELSE LET g == Pack(in)
             IN  [base EXCEPT !.outcome = "ok", !.packed = TRUE,
                              !.geometry = g,
                              !.base_x = BaseX(in, g),
                              !.base_y = BaseY(in, g),
                              !.rects = Written(lay, in, g, kids, baseline)]

\* LayoutManagerImpl::allocate(widget, width, height, baseline); the host
\* calls it with the box it has just given the widget
Allocate(width, height, baseline) ==
    /\ Running
    /\ layout_strategy' = RefreshedLayout
    /\ call' = MenuLayoutAllocate(RefreshedLayout, children, width, height,
                                  baseline, overflow_checks)
    /\ widget' = [width |-> width, height |-> height]
    /\ measured' = NoMeasure
    /\ UNCHANGED <<aspect_ratio, aspect_ratio_set, column_spacing, row_spacing,
                   children, overflow_checks>>

\* property setters generated by #[property(.., set)]
SetAspectRatio(a) ==
    /\ Running
    /\ aspect_ratio' = a
    /\ UNCHANGED <<aspect_ratio_set, column_spacing, row_spacing, layout_strategy,
                   children, overflow_checks, call, widget>>
    /\ measured' = NoMeasure

SetAspectRatioSet(b) ==
    /\ Running
    /\ aspect_ratio_set' = b
    /\ UNCHANGED <<aspect_ratio, column_spacing, row_spacing, layout_strategy,
                   children, overflow_checks, call, widget>>
    /\ measured' = NoMeasure

SetColumnSpacing(s) ==
    /\ Running
    /\ column_spacing' = s
    /\ UNCHANGED <<aspect_ratio, aspect_ratio_set, row_spacing, layout_strategy,
                   children, overflow_checks, call, widget>>
    /\ measured' = NoMeasure

SetRowSpacing(s) ==
    /\ Running
    /\ row_spacing' = s
    /\ UNCHANGED <<aspect_ratio, aspect_ratio_set, column_spacing, layout_strategy,
                   children, overflow_checks, call, widget>>
    /\ measured' = NoMeasure

\* the host widget tree: a child is appended, removed, shown or hidden
AddChild(visible) ==
    /\ Running
    /\ Len(children) < MaxChildren
    /\ children' = Append(children, Child(visible))
    /\ UNCHANGED <<aspect_ratio, aspect_ratio_set, column_spacing, row_spacing,
                   layout_strategy, overflow_checks, call, widget>>
    /\ measured' = NoMeasure

RemoveChild(i) ==
    /\ Running
    /\ i \in 1..Len(children)
    /\ children' = [k \in 1..(Len(children) - 1) |->
                       IF k < i THEN children[k] ELSE children[k + 1]]
    /\ UNCHANGED <<aspect_ratio, aspect_ratio_set, column_spacing, row_spacing,
                   layout_strategy, overflow_checks, call, widget>>
    /\ measured' = NoMeasure

SetVisible(i, visible) ==
    /\ Running
    /\ i \in 1..Len(children)
    /\ children' = [children EXCEPT ![i].should_layout = visible]
    /\ UNCHANGED <<aspect_ratio, aspect_ratio_set, column_spacing, row_spacing,
                   layout_strategy, overflow_checks, call, widget>>
    /\ measured' = NoMeasure

\* Measure refreshing the stored layout as allocate does
Measure_Refreshes(orientation, for_size) ==
    /\ Running
    /\ measured' = [done |-> TRUE, orientation |-> orientation,
                    for_size |-> for_size,
                    result |-> MeasureResult(children, orientation, for_size,
                                             aspect_ratio, widget)]
    /\ layout_strategy' = [column_spacing |-> column_spacing,
                           row_spacing |-> row_spacing,
                           aspect_ratio |-> IF aspect_ratio_set
                                            THEN Some(aspect_ratio) ELSE None]
    /\ UNCHANGED <<aspect_ratio, aspect_ratio_set, column_spacing, row_spacing,
                   children, overflow_checks, call, widget>>

\* LayoutManagerImpl::measure(widget, orientation, for_size): reads the
\* children, the aspect-ratio property and the widget's extent, writes nothing
Measure(orientation, for_size) ==
    /\ Running
    /\ measured' = [done |-> TRUE, orientation |-> orientation,
                    for_size |-> for_size,
                    result |-> MeasureResult(children, orientation, for_size,
                                             aspect_ratio, widget)]
    /\ UNCHANGED <<aspect_ratio, aspect_ratio_set, column_spacing, row_spacing,
                   layout_strategy, children, overflow_checks, call, widget>>

\* ------------------------------------------------------------ specifications

\* the layout manager in its host: constructed, then any interleaving of
\* property sets, child-list changes, measure calls and allocate calls on a
\* box too low for two rows 3 apart
Init ==
    /\ \E ratio \in {None, Some(<<2, 1>>)}, c_spacing \in {<<0, 1>>, <<3, 1>>} :
          New(ratio, c_spacing, <<0, 1>>)
    /\ children = <<>>
    /\ overflow_checks \in BOOLEAN
    /\ call = NoCall
    /\ widget = [width |-> 0, height |-> 0]
    /\ measured = NoMeasure

Next ==
    \/ \E a \in {<<1, 1>>, <<2, 1>>} : SetAspectRatio(a)
    \/ \E b \in BOOLEAN : SetAspectRatioSet(b)
    \/ \E s \in {<<0, 1>>, <<3, 1>>} : SetColumnSpacing(s)
    \/ \E s \in {<<0, 1>>, <<3, 1>>} : SetRowSpacing(s)
    \/ \E v \in BOOLEAN : AddChild(v)
    \/ \E i \in 1..MaxChildren : RemoveChild(i)
    \/ \E i \in 1..MaxChildren, v \in BOOLEAN : SetVisible(i, v)
    \/ \E c \in {<<12, 2, 5>>} : Allocate(c[1], c[2], c[3])
    \/ \E m \in {<<"Horizontal", -1>>, <<"Vertical", 3>>} : Measure(m[1], m[2])

Spec == Init /\ [][Next]_vars

\* allocate as a function of its inputs: a layout manager constructed with any
\* ratio and spacings on a widget with any of the child lists, then allocate
\* on any box
InitAllocate ==
    /\ \E ratio \in {None} \cup {Some(a) : a \in AspectValues},
          spacing \in SpacingPairs :
          New(ratio, spacing[1], spacing[2])
    /\ children \in ChildLists
    /\ overflow_checks \in BOOLEAN
    /\ call = NoCall
    /\ widget = [width |-> 0, height |-> 0]
    /\ measured = NoMeasure

NextAllocate ==
    \E c \in Calls : Allocate(c[1], c[2], c[3])

SpecAllocate == InitAllocate /\ [][NextAllocate]_vars

\* measure as a function of its inputs: any stored aspect-ratio value (0
\* included) with the flag either way, a widget of any of the extents holding
\* any list of measured children, then measure for any orientation and size
InitMeasure ==
    /\ aspect_ratio \in MeasureAspects
    /\ aspect_ratio_set \in BOOLEAN
    /\ column_spacing = RInt(0)
    /\ row_spacing = RInt(0)
    /\ layout_strategy = DefaultMenuLayout
    /\ children \in MeasuredLists
    /\ overflow_checks \in BOOLEAN
    /\ call = NoCall
    /\ widget \in Extents
    /\ measured = NoMeasure

NextMeasure ==
    \E orientation \in {"Horizontal", "Vertical"}, for_size \in ForSizes :
        Measure(orientation, for_size)

SpecMeasure == InitMeasure /\ [][NextMeasure]_vars

\* ------------------------------------------------------------ properties

\* the last allocate call returned and ran the packer
Packed == call.outcome = "ok" /\ call.packed

\* the packer's inputs in that call (the stored layout changes in allocate only)
CallInput == PackInput(layout_strategy, call.n, call.width, call.height)

\* the specification's tight partitions of n items
Tight(n, rows, cols) ==
    /\ rows * cols >= n
    /\ rows * cols - n < rows
    /\ rows * cols - n < cols

\* no usize subtraction of the call wrapped, and the box is positive
NoWrap(in) ==
    /\ in.width > 0
    /\ in.height > 0
    /\ \A i_rows \in 1..in.n, j_cols \in 1..in.n :
          Scored(in.n, i_rows, j_cols)
          => ~CandidateOverflows(in.width, in.height, in.col_spacing, in.row_spacing,
                                 i_rows, j_cols)

\* C1: after every allocate call that ran the packer, the (rows, cols) it ends
\* with is a tight partition of the n children: rows*cols >= n,
\* rows*cols - n < rows and rows*cols - n < cols, a zero-sized box included.
C1_Tightness ==
    Packed => Tight(call.n, call.geometry.rows, call.geometry.cols)

\* C2: the cell area of the geometry the packer returns is at least the cell
\* area of every tight (rows, cols) pair in 1..n x 1..n for the same inputs.
C2_AreaMaximal ==
    Packed =>
        \A rows \in 1..call.n, cols \in 1..call.n :
            Tight(call.n, rows, cols)
            => FLe(Area(Cell(CallInput, rows, cols)), GeometryArea(call.geometry))

\* a call on four or more children that chose a grid of several rows and
\* columns over tight pairs of strictly smaller cell area
C2_Witness ==
    /\ Packed
    /\ call.n >= 4
    /\ call.geometry.rows > 1
    /\ call.geometry.cols > 1
    /\ \E rows \in 1..call.n, cols \in 1..call.n :
          /\ Tight(call.n, rows, cols)
          /\ FLt(FZero, Area(Cell(CallInput, rows, cols)))
          /\ FLt(Area(Cell(CallInput, rows, cols)), GeometryArea(call.geometry))

\* C3: whenever an aspect ratio a is set, the geometry the packer returns has
\* cell_width = a * cell_height, for a >= 1 and a < 1 alike.
C3_AspectFidelity ==
    (Packed /\ layout_strategy.aspect_ratio.some)
    => call.geometry.b_width
         = FMul(FRat(layout_strategy.aspect_ratio.value), call.geometry.b_height)

\* a call with a ratio below 1 that chose a cell of positive size whose width
\* was capped by the width budget, in a grid of several columns
C3_Witness ==
    /\ Packed
    /\ layout_strategy.aspect_ratio.some
    /\ RLt(layout_strategy.aspect_ratio.value, RInt(1))
    /\ call.geometry.cols > 1
    /\ FLt(FZero, call.geometry.b_height)
    /\ FLt(call.geometry.b_height,
           HeightQuotient(call.height, CallInput.row_spacing, call.geometry.rows))

\* rectangles small enough to add up
SmallRect(r) ==
    /\ r.x > -100000 /\ r.x < 100000
    /\ r.y > -100000 /\ r.y < 100000
    /\ r.width < 100000 /\ r.height < 100000

Min(S) == CHOOSE x \in S : \A y \in S : x <= y
Max(S) == CHOOSE x \in S : \A y \in S : x >= y

WrittenRects == {call.rects[k] : k \in {j \in 1..Len(call.rects) : call.rects[j].set}}

\* the bounding box of the written rectangles leaves margins that differ by
\* at most one pixel, left against right and top against bottom
Centered ==
    LET left == Min({r.x : r \in WrittenRects})
        right == Max({r.x + r.width : r \in WrittenRects})
        top == Min({r.y : r \in WrittenRects})
        bottom == Max({r.y + r.height : r \in WrittenRects})
    IN  /\ Abs(left - (call.width - right)) <= 1
        /\ Abs(top - (call.height - bottom)) <= 1

\* C4: after allocate, the bounding box of the rectangles written to the
\* participating children is centered in the content box on both axes to within
\* half a pixel, for every aspect ratio and every non-negative spacing (stated
\* for a positive box, every child participating, whole spacings and no
\* subtraction wrapping).
C4_Centering ==
    (/\ Packed
     /\ NoWrap(CallInput)
     /\ \A k \in 1..Len(call.shown) : call.shown[k]
     /\ layout_strategy.column_spacing[1] >= 0 /\ layout_strategy.column_spacing[2] = 1
     /\ layout_strategy.row_spacing[1] >= 0 /\ layout_strategy.row_spacing[2] = 1)
    => (/\ \A r \in WrittenRects : SmallRect(r)
        /\ Centered)

\* the widths the monotonicity claim compares
Widths == {c[1] : c \in Calls}

\* C5: for fixed n, height, spacing and aspect ratio, a call with a width at
\* least that of the last call chooses a cell area at least as large (stated
\* for widths and heights that are not negative).
C5_Monotone ==
    (Packed /\ call.width >= 0 /\ call.height >= 0) =>
        \A width2 \in Widths :
            LET in2 == [CallInput EXCEPT !.width = width2]
            IN  (call.width <= width2 /\ ~PackPanics(in2, overflow_checks))
                => FLe(GeometryArea(call.geometry), GeometryArea(Pack(in2)))

\* the two documented scenarios: no aspect ratio, zero spacing, every child
\* participating
Scenario(n, width, height) ==
    /\ Packed
    /\ ~layout_strategy.aspect_ratio.some
    /\ layout_strategy.column_spacing = RInt(0)
    /\ layout_strategy.row_spacing = RInt(0)
    /\ call.n = n
    /\ call.width = width
    /\ call.height = height

\* C6 as the specification states it: n=6 in a 600x300 box gives rows=2, cols=3
\* with cells of 200x150, and n=5 in a 500x500 box gives (2,3) or (3,2).
C6_Balanced ==
    /\ Scenario(6, 600, 300)
       => call.geometry = [rows |-> 2, cols |-> 3,
                           b_width |-> FInt(200), b_height |-> FInt(150)]
    /\ Scenario(5, 500, 500)
       => <<call.geometry.rows, call.geometry.cols>> \in {<<2, 3>>, <<3, 2>>}

\* C6 amended: with no aspect ratio and zero spacing the packer returns the
\* single-row strip: rows=1, cols=6 with cells of 100x300 for n=6 in a 600x300
\* box, and rows=1, cols=5 with cells of 100x500 for n=5 in a 500x500 box.
C6_SingleRow ==
    /\ Scenario(6, 600, 300)
       => call.geometry = [rows |-> 1, cols |-> 6,
                           b_width |-> FInt(100), b_height |-> FInt(300)]
    /\ Scenario(5, 500, 500)
       => call.geometry = [rows |-> 1, cols |-> 5,
                           b_width |-> FInt(100), b_height |-> FInt(500)]

\* the first scenario has been run
C6_Witness == Scenario(6, 600, 300)

\* C7: with an aspect ratio set and a positive box, the grid the packer
\* returns fits inside the box: cols*cell_width + (cols-1)*column_spacing <=
\* width and rows*cell_height + (rows-1)*row_spacing <= height (stated for the
\* calls in which no subtraction wraps).
C7_FitsBox ==
    (Packed /\ layout_strategy.aspect_ratio.some /\ NoWrap(CallInput))
    => LET g == call.geometry
           in == CallInput
       IN  /\ FLe(FAdd(FMul(FInt(g.cols), g.b_width),
                       FInt((g.cols - 1) * in.col_spacing)),
                  FInt(call.width))
           /\ FLe(FAdd(FMul(FInt(g.rows), g.b_height),
                       FInt((g.rows - 1) * in.row_spacing)),
                  FInt(call.height))

\* the number of participating children before position k (1-based)
RECURSIVE Rank(_, _)
Rank(shown, k) ==
    IF k <= 1 THEN 0 ELSE Rank(shown, k - 1) + (IF shown[k - 1] THEN 1 ELSE 0)

\* C8: the item count given to the packer is the number of participating
\* children, and the k-th participating child is placed at row k div cols,
\* column k mod cols; a hidden child neither counts nor occupies a cell.
C8_ParticipatingOnly ==
    Packed =>
        /\ call.n = Cardinality({k \in 1..Len(call.shown) : call.shown[k]})
        /\ \A k \in 1..Len(call.shown) :
              call.shown[k]
              => call.rects[k] = ItemRect(layout_strategy, CallInput, call.geometry,
                                          Rank(call.shown, k), call.baseline)

\* C9: allocate completes without panic and without integer underflow for
\* every input, whatever the box and the spacing.
C9_NoPanicNoUnderflow ==
    call.outcome # "none" =>
        /\ call.outcome = "ok"
        /\ \A i_rows \in 1..call.n, j_cols \in 1..call.n :
              Scored(call.n, i_rows, j_cols)
              => ~CandidateOverflows(call.width, call.height, CallInput.col_spacing,
                                     CallInput.row_spacing, i_rows, j_cols)

\* the stored layout with negative spacings replaced by 0
ClampedLayout(lay) ==
    [lay EXCEPT !.column_spacing = IF lay.column_spacing[1] < 0 THEN RInt(0) ELSE @,
                !.row_spacing = IF lay.row_spacing[1] < 0 THEN RInt(0) ELSE @]

\* C10: every use of a spacing in allocate is of the clamped value, so a
\* negative column-spacing or row-spacing property gives exactly the placements
\* that spacing 0 gives.
C10_NegativeSpacingAsZero ==
    Packed =>
        call.rects = Written(ClampedLayout(layout_strategy), CallInput, call.geometry,
                             [k \in 1..Len(call.shown) |-> Child(call.shown[k])],
                             call.baseline)

\* where no subtraction wraps, neither for the narrower box nor for the wider
\* one, the wider box never gets a smaller cell area
MonotoneWithoutWrap ==
    (Packed /\ NoWrap(CallInput)) =>
        \A width2 \in Widths :
            LET in2 == [CallInput EXCEPT !.width = width2]
            IN  (call.width <= width2 /\ NoWrap(in2))
                => FLe(GeometryArea(call.geometry), GeometryArea(Pack(in2)))

\* ------------------------------------------------------------ measure properties

\* the children measure takes part in
Participating == {k \in 1..Len(children) : children[k].should_layout}

\* the largest of a field of the participating children's measurements on the
\* measured axis, none below the given floor
Envelope(field, floor) ==
    Max({floor} \cup {children[k][measured.orientation][field] : k \in Participating})

\* the extent on the other axis: for_size, the widget's own when it is -1
Cross ==
    IF measured.for_size >= 0 THEN measured.for_size
    ELSE IF measured.orientation = "Horizontal" THEN widget.height
    ELSE widget.width

\* round(Cross * a) measuring width, round(Cross / a) measuring height, for a
\* positive ratio a = p/q, in integer arithmetic
ExpectedSize ==
    LET p == aspect_ratio[1]
        q == aspect_ratio[2]
    IN  IF measured.orientation = "Horizontal"
        THEN (2 * Cross * p + q) \div (2 * q)
        ELSE (2 * Cross * q + p) \div (2 * p)

\* C11: when aspect-ratio-set is false, measure returns natural equal to the
\* maximum of the participating children's natural sizes on the measured axis,
\* for both orientations, every for_size, every extent of the widget and
\* every stored aspect-ratio value.
C11_UnsetNaturalIsEnvelope ==
    (measured.done /\ ~aspect_ratio_set)
    => measured.result.nat = Envelope("nat", 0)

\* C12 as stated: when an aspect ratio a is set, measure returns natural =
\* max(min, E), the children's natural sizes not capping E.
C12_NaturalIsExpected ==
    (measured.done /\ aspect_ratio_set /\ aspect_ratio[1] > 0)
    => measured.result.nat = MaxOf(measured.result.min, ExpectedSize)

\* C12: when an aspect ratio a is set, measure returns natural =
\* max(min, min(N, E)), N the maximum of the participating children's natural
\* sizes and E = round(cross * a) measuring width, round(cross / a) measuring
\* height: the children's natural size caps E.
C12_NaturalCapped ==
    (measured.done /\ aspect_ratio_set /\ aspect_ratio[1] > 0)
    => measured.result.nat
         = MaxOf(measured.result.min, MinOf(Envelope("nat", 0), ExpectedSize))

\* a measure with a ratio set whose expected size lies above the children's
\* natural size, which is what it returned, above the minimum
C12_Witness ==
    /\ measured.done
    /\ aspect_ratio_set
    /\ aspect_ratio[1] > 0
    /\ Envelope("nat", 0) < ExpectedSize
    /\ measured.result.nat = Envelope("nat", 0)
    /\ measured.result.nat > measured.result.min

\* C13: measure's min is the maximum of the participating children's minimum
\* sizes (0 when none) and each of its baselines the maximum of their
\* baselines other than -1 (-1 when there is none); a child that does not
\* participate contributes nothing.
C13_Envelope ==
    measured.done
    => /\ measured.result.min = Envelope("min", 0)
       /\ measured.result.min_baseline = Envelope("min_baseline", -1)
       /\ measured.result.nat_baseline = Envelope("nat_baseline", -1)

\* a measure over a participating child and a hidden one whose minimum and
\* baseline are above what was returned
C13_Witness ==
    /\ measured.done
    /\ Participating # {}
    /\ \E k \in 1..Len(children) :
          /\ ~children[k].should_layout
          /\ children[k][measured.orientation].min > measured.result.min
          /\ children[k][measured.orientation].min_baseline
                > measured.result.min_baseline

\* C14: with no participating child measure returns (0, 0, -1, -1), for both
\* orientations, every for_size, every extent and every aspect-ratio value,
\* 0 included.
C14_NothingToMeasure ==
    (measured.done /\ Participating = {})
    => measured.result = Measurement(0, 0, -1, -1)

\* a measure of the height for a positive width over hidden children only,
\* with the stored ratio 0 (the expected height is infinite)
C14_Witness ==
    /\ measured.done
    /\ Participating = {}
    /\ Len(children) > 0
    /\ aspect_ratio = RInt(0)
    /\ measured.orientation = "Vertical"
    /\ measured.for_size > 0

\* ------------------------------------------------------------ protocol properties

\* C15: when no child participates in layout (no child at all, or every child
\* with should_layout false) allocate calls size_allocate on no child,
\* whatever the width, height, spacings and aspect ratio.
C15_NoPlacementWithoutParticipants ==
    (call.outcome # "none" /\ \A k \in 1..Len(call.shown) : ~call.shown[k])
    => \A k \in 1..Len(call.rects) : ~call.rects[k].set

\* a call on two hidden children that returned after packing them into cells
\* of positive size
C15_Witness ==
    /\ Packed
    /\ call.n = 2
    /\ call.shown = <<FALSE, FALSE>>
    /\ FLt(FZero, GeometryArea(call.geometry))
    /\ WrittenRects = {}

\* the four properties as a layout configuration
CurrentConfig ==
    [column_spacing |-> column_spacing,
     row_spacing |-> row_spacing,
     aspect_ratio |-> IF aspect_ratio_set
                      THEN [some |-> TRUE, value |-> aspect_ratio]
                      ELSE [some |-> FALSE, value |-> RInt(0)]]

\* C16: every allocate, whatever property sets, measure calls and allocate
\* calls came before, overwrites the stored layout with the property values
\* current when it is called (an aspect ratio iff aspect-ratio-set is true
\* then) and does exactly what those values, the children and its arguments
\* determine.
C16_CurrentProperties ==
    [][(call' # call \/ layout_strategy' # layout_strategy)
       => /\ layout_strategy' = CurrentConfig
          /\ call' = MenuLayoutAllocate(CurrentConfig, children, call'.width,
                                        call'.height, call'.baseline,
                                        overflow_checks)]_vars

\* an allocate of one child that used a row spacing and a ratio of 1 which
\* only property sets after construction can have given
C16_Witness ==
    /\ Packed
    /\ call.n = 1
    /\ layout_strategy.row_spacing = RInt(3)
    /\ layout_strategy.aspect_ratio = Some(RInt(1))
    /\ call.rects[1].set

\* C17: measure changes no engine state (the four properties, the stored
\* layout), nor the children, the widget or what allocate did; what it
\* returns is determined by the children, the aspect-ratio value, the
\* orientation, for_size and the widget's extent as they are, and a second
\* identical measure returns the same tuple.
C17_MeasureIsPure ==
    [][measured'.done
       => /\ UNCHANGED <<engine, children, call, widget>>
          /\ measured'.result
               = MeasureResult(children', measured'.orientation,
                               measured'.for_size, aspect_ratio', widget')
          /\ (measured.done /\ measured.orientation = measured'.orientation
                             /\ measured.for_size = measured'.for_size)
             => measured'.result = measured.result]_vars

\* a measure over a participating child after an allocate and a property set:
\* the stored layout is still the one of the allocate
C17_Witness ==
    /\ measured.done
    /\ Participating # {}
    /\ Packed
    /\ layout_strategy # CurrentConfig

\* C18: allocate called again with the width, height, baseline, property
\* values and children of the call before writes the rectangles that call
\* wrote, to every child.
C18_Idempotent ==
    (call.outcome = "ok" /\ layout_strategy = CurrentConfig
                         /\ Shown(children) = call.shown)
    => MenuLayoutAllocate(CurrentConfig, children, call.width, call.height,
                          call.baseline, overflow_checks).rects = call.rects

\* a call that placed two children side by side with a baseline, the
\* properties and children still as they were in it
C18_Witness ==
    /\ Packed
    /\ call.shown = <<TRUE, TRUE>>
    /\ call.geometry.cols = 2
    /\ call.baseline = 5
    /\ layout_strategy = CurrentConfig
    /\ Shown(children) = call.shown

\* ------------------------------------------------------------ search properties

\* C19: a pair (rows, cols) in 1..n x 1..n is scored if and only if
\* rows*cols >= n, rows*cols - n < rows and rows*cols - n < cols; every other
\* pair (rows=2, cols=2 for n=2) is skipped before its area is computed.
C19_ScoredIffTight ==
    Packed =>
        \A rows \in 1..call.n, cols \in 1..call.n :
            Scored(call.n, rows, cols) <=> Tight(call.n, rows, cols)

\* C20: with an aspect ratio a set, the cell of every scored candidate is the
\* largest rectangle of ratio a within the per-cell budget Wq x Hq:
\* cell_height = min(Hq, Wq / a) and cell_width = a * cell_height, for a >= 1
\* and a < 1.
C20_LargestCell ==
    (Packed /\ layout_strategy.aspect_ratio.some /\ NoWrap(CallInput))
    => \A rows \in 1..call.n, cols \in 1..call.n :
          Scored(call.n, rows, cols)
          => LET a == FRat(layout_strategy.aspect_ratio.value)
                 wq == WidthQuotient(call.width, CallInput.col_spacing, cols)
                 hq == HeightQuotient(call.height, CallInput.row_spacing, rows)
                 h == FMin(hq, FDiv(wq, a))
             IN  Cell(CallInput, rows, cols) = [w |-> FMul(a, h), h |-> h]

\* ------------------------------------------------------------ grid properties

\* a spacing property that is a whole number, not negative
WholeSpacing(s) == s[1] >= 0 /\ s[2] = 1

\* C21: the centering offset and the item positions use the same effective
\* column spacing e (column_spacing * aspect_ratio when a ratio is set,
\* column_spacing otherwise): base_x = (width - grid_width)/2 with grid_width =
\* cols*cell_width + (cols-1)*e, and the item in column c gets
\* x = base_x + c*(cell_width + e) (stated for whole non-negative column
\* spacings and calls in which no subtraction wraps).
C21_SameEffectiveSpacing ==
    (Packed /\ NoWrap(CallInput) /\ WholeSpacing(layout_strategy.column_spacing))
    => LET g == call.geometry
           a == IF layout_strategy.aspect_ratio.some
                THEN FRat(layout_strategy.aspect_ratio.value) ELSE FInt(1)
           e == FMul(FRat(layout_strategy.column_spacing), a)
           grid_width == FAdd(FMul(FInt(g.cols), g.b_width),
                              FMul(FInt(g.cols - 1), e))
           bx == FDiv(FSub(FInt(call.width), grid_width), FInt(2))
       IN  /\ call.base_x = bx
           /\ \A k \in 1..Len(call.rects) :
                 call.rects[k].set
                 => call.rects[k].x
                      = AsI32(FAdd(bx, FMul(FInt((k - 1) % g.cols),
                                            FAdd(g.b_width, e))))

\* the scored candidates of the last call, by their place in the search order
ScoredPlaces ==
    {k \in 0..(call.n * call.n - 1) :
        Scored(call.n, (k \div call.n) + 1, (k % call.n) + 1)}

PlaceArea(k) == Area(Cell(CallInput, (k \div call.n) + 1, (k % call.n) + 1))

\* the scored candidates whose cell area no scored candidate exceeds
MaximalPlaces ==
    {k \in ScoredPlaces : \A j \in ScoredPlaces : FLe(PlaceArea(j), PlaceArea(k))}

\* C22: when several scored candidates share the maximal cell area, the
\* packer returns the first of them in search order (rows ascending, then
\* cols ascending).
C22_FirstOfTheBest ==
    (Packed /\ MaximalPlaces # {})
    => LET k == Min(MaximalPlaces)
       IN  /\ call.geometry.rows = (k \div call.n) + 1
           /\ call.geometry.cols = (k % call.n) + 1

\* a positive box and spacings not negative that leave every scored candidate
\* room: width - (cols-1)*column_spacing > 0 and
\* height - (rows-1)*row_spacing > 0, and so a cell of positive width and
\* height
PositiveCandidates ==
    /\ call.width > 0
    /\ call.height > 0
    /\ layout_strategy.column_spacing[1] >= 0
    /\ layout_strategy.row_spacing[1] >= 0
    /\ \A k \in ScoredPlaces :
          LET c == Cell(CallInput, (k \div call.n) + 1, (k % call.n) + 1)
          IN  /\ RLt(RMul(RInt(k % call.n), layout_strategy.column_spacing),
                     RInt(call.width))
              /\ RLt(RMul(RInt(k \div call.n), layout_strategy.row_spacing),
                     RInt(call.height))
              /\ FLt(FZero, c.w)
              /\ FLt(FZero, c.h)

\* C23: for a positive box and non-negative spacing with every scored
\* candidate's cell of positive width and height, the pair the packer returns
\* is strictly tight (rows*cols - n < rows and < cols) for every aspect
\* setting, although the filter also scores pairs whose excess equals rows
\* or cols.
C23_ReturnsTight ==
    (Packed /\ PositiveCandidates)
    => Tight(call.n, call.geometry.rows, call.geometry.cols)

\* a call in which a scored pair that is not tight has the area of the
\* returned geometry, and was not returned
C23_Witness ==
    /\ Packed
    /\ PositiveCandidates
    /\ \E k \in ScoredPlaces :
          /\ ~Tight(call.n, (k \div call.n) + 1, (k % call.n) + 1)
          /\ PlaceArea(k) = GeometryArea(call.geometry)
          /\ <<call.geometry.rows, call.geometry.cols>>
               # <<(k \div call.n) + 1, (k % call.n) + 1>>

\* no aspect ratio, zero spacings, a positive box
PlainBox ==
    /\ ~layout_strategy.aspect_ratio.some
    /\ layout_strategy.column_spacing = RInt(0)
    /\ layout_strategy.row_spacing = RInt(0)
    /\ call.width > 0
    /\ call.height > 0

\* C24: with no aspect ratio, zero column and row spacing and a positive box,
\* every scored pair with rows*cols = n has the cell area width*height/n,
\* every other scored pair has less, and the packer returns rows=1, cols=n
\* for every n >= 1 and every box shape.
C24_AlwaysSingleRow ==
    (Packed /\ PlainBox)
    => /\ call.geometry.rows = 1
       /\ call.geometry.cols = call.n
       /\ \A k \in ScoredPlaces :
             LET full == FRat(Rat(call.width * call.height, call.n))
             IN  IF ((k \div call.n) + 1) * ((k % call.n) + 1) = call.n
                 THEN PlaceArea(k) = full
                 ELSE FLt(PlaceArea(k), full)

\* four or more children in a box taller than wide, laid out in one row
C24_Witness ==
    /\ Packed
    /\ PlainBox
    /\ call.n >= 4
    /\ call.height > call.width
    /\ call.geometry.rows = 1
    /\ call.geometry.cols = call.n

\* the intervals [a, a + wa) and [b, b + wb) meet (wa, wb >= 0; written so
\* that no sum leaves the i32 range)
Meet(a, wa, b, wb) ==
    IF a <= b
    THEN wb > 0 /\ (IF a > 0 /\ wa > I32Max - a THEN TRUE ELSE b < a + wa)
    ELSE wa > 0 /\ (IF b > 0 /\ wb > I32Max - b THEN TRUE ELSE a < b + wb)

Overlap(r, q) ==
    /\ Meet(r.x, r.width, q.x, q.width)
    /\ Meet(r.y, r.height, q.y, q.height)

\* C25: for a positive box, non-negative spacing properties and a returned
\* geometry with positive cell size, no two rectangles written by one
\* allocate call overlap.
C25_NoOverlap ==
    (/\ Packed
     /\ call.width > 0
     /\ call.height > 0
     /\ layout_strategy.column_spacing[1] >= 0
     /\ layout_strategy.row_spacing[1] >= 0
     /\ FLt(FZero, call.geometry.b_width)
     /\ FLt(FZero, call.geometry.b_height))
    => \A j \in 1..Len(call.rects), k \in 1..Len(call.rects) :
          (j < k /\ call.rects[j].set /\ call.rects[k].set)
          => ~Overlap(call.rects[j], call.rects[k])

\* where some candidate has a cell of positive area, the first of the best is
\* what the packer returns
FirstOfThePositive ==
    (Packed /\ \E k \in ScoredPlaces : FLt(FZero, PlaceArea(k)))
    => /\ MaximalPlaces # {}
       /\ call.geometry.rows = (Min(MaximalPlaces) \div call.n) + 1
       /\ call.geometry.cols = (Min(MaximalPlaces) % call.n) + 1

\* C25 where no subtraction of the call wrapped and no aspect ratio is set
NoOverlapWithoutWrap ==
    (/\ Packed
     /\ NoWrap(CallInput)
     /\ ~layout_strategy.aspect_ratio.some
     /\ layout_strategy.column_spacing[1] >= 0
     /\ layout_strategy.row_spacing[1] >= 0
     /\ FLt(FZero, call.geometry.b_width)
     /\ FLt(FZero, call.geometry.b_height))
    => \A j \in 1..Len(call.rects), k \in 1..Len(call.rects) :
          (j < k /\ call.rects[j].set /\ call.rects[k].set)
          => ~Overlap(call.rects[j], call.rects[k])

====
